---- MODULE Spec2Model ----
(***************************************************************************)
(* The Trigger (scheduler) and Agent (tool-calling loop) of the bot, on    *)
(* top of a single-threaded asyncio event loop.                            *)
(*                                                                         *)
(* The event loop is a FIFO queue of handles (`readyq`): a task's step, a  *)
(* task's done-callback, the wake-up of a task that awaited another task.  *)
(* One loop action pops the head handle and runs the code of that step up  *)
(* to its next suspension point.  The outside world (the chat platform,    *)
(* I/O completions, the timer) adds handles at the tail.                   *)
(***************************************************************************)
EXTENDS Integers, Sequences, FiniteSets, TLC

\* ------------------------------------------------------------ bounds
MaxMsgs == 3        \* message events delivered by the platform, idle timer absent
MaxIdleMsgs == 1    \* message events delivered by the platform, idle timer configured
MaxIdleRuns == 1    \* idle invocations started by the idle loops
MaxConnects == 2    \* readiness signals (on_ready) of the platform
MaxTicks == 1       \* timer expiries of the idle loops
MaxRounds == 2      \* model requests of one invocation
MaxSends == 1       \* messages sent by one invocation
MaxWords == 3       \* words of a message given to the eligibility filter
MaxRequests == 3    \* model requests of an invocation followed call by call
MaxCalls == 2       \* tool calls of one model response
MaxSeen == 3        \* message events delivered to the friendbot DiscordClient
MaxReady == 2       \* readiness signals delivered to the friendbot DiscordClient
MaxMinuteMsgs == 2  \* message events delivered by the platform, idle timer of a minute
MaxMinuteRuns == 2  \* idle invocations started by the idle loops of a minute

\* ------------------------------------------------------------ values
AgentName == "Proctor"
Authors == {"Proctor", "Bob", "Carol"}
\* the conversations of the platform: (server id, channel id)
Keys == {<<"s1", "c1">>, <<"s1", "c2">>}

\* A word of a message's content; at = the word is written "@word".
Tok(at, word) == [at |-> at, word |-> word]

\* Message._MENTION_REGEX.findall(content): the names written "@name", in order
RECURSIVE findall(_)
findall(content) ==
    IF content = <<>> THEN <<>>
    ELSE (IF Head(content).at THEN <<Head(content).word>> ELSE <<>>)
         \o findall(Tail(content))

\* Message(content, author): mentions are computed from the content
Message(content, author) ==
    [content |-> content, author |-> author, mentions |-> findall(content)]

InSeq(x, s) == \E i \in 1..Len(s) : s[i] = x

\* _should_respond without the test of the author
should_respond_no_author_test(message) ==
    IF Len(message.mentions) > 0 /\ ~InSeq(AgentName, message.mentions) THEN FALSE
    ELSE TRUE

\* _should_respond without the test of the mentions
should_respond_no_mention_test(message) ==
    IF message.author = AgentName THEN FALSE ELSE TRUE

\* _should_respond rejecting every message that mentions someone else
should_respond_any_other(message) ==
    IF message.author = AgentName THEN FALSE
    ELSE IF \E i \in 1..Len(message.mentions) : message.mentions[i] # AgentName THEN FALSE
    ELSE TRUE

\* Trigger._should_respond
should_respond(message) ==
    IF message.author = AgentName THEN FALSE
    ELSE IF Len(message.mentions) > 0 /\ ~InSeq(AgentName, message.mentions) THEN FALSE
    ELSE TRUE

\* The messages the platform delivers in the scheduler model.
Inbox ==
    { Message(<<Tok(FALSE, "hi")>>, "Bob"),
      Message(<<Tok(TRUE, "Proctor"), Tok(TRUE, "Bob")>>, "Carol"),
      Message(<<Tok(TRUE, "Carol")>>, "Bob"),
      Message(<<Tok(TRUE, "Proctor")>>, "Proctor") }

\* ------------------------------------------------------------ state
VARIABLES
    hub_ready,                  \* the platform has signalled readiness (on_ready ran)
    connects,                   \* number of readiness signals so far
    schedule_interval_seconds,  \* Trigger._schedule_interval_seconds
    response_tasks,             \* Trigger._response_tasks: conversation -> task (0: no entry)
    scheduled_tasks,            \* Trigger._scheduled_tasks: the recorded idle tasks
    tasks,                      \* every task created for an Agent invocation, by creation order
    handlers,                   \* every on_message task, by arrival order
    idle_loops,                 \* the _run_idle tasks: "queued" (step on the loop) or "sleeping"
    ticks,                      \* timer expiries so far
    readyq,                     \* the event loop's FIFO of ready handles
    history,                    \* per conversation, its most recent message (<<>>: empty)
    f_message,                  \* eligibility filter alone: the message it is given
    f_verdict,                  \* eligibility filter alone: what it answered
    call_pc,                    \* Agent.__call__ alone: where the invocation stands
    mcp_client,                 \* Agent._mcp_client is set
    functions,                  \* the names in the `functions` table of the invocation
    ran_tools,                  \* the `ran_tools` flag of the invocation
    responses,                  \* per model request so far, the number of its tool calls
    tool_tasks,                 \* the _run_tool tasks of the round's gather
    chat_history,               \* the roles of the entries of `chat_history`
    call_error,                 \* the exception the invocation ended with ("none": none)
    gather_exception,           \* the first exception raised by a task of the round's gather
    is_ready,                   \* friendbot DiscordClient alone: is_ready()
    respond_task,               \* friendbot DiscordClient._respond_task (0: None)
    respond_tasks,              \* the tasks that client created, by creation order
    seen,                       \* what on_message did with each message so far
    package,                    \* main alone: the package whose main() runs
    environ,                    \* main alone: the *_SCHEDULE_INTERVAL variable of the environment
    parsed,                     \* main alone: what _parse_schedule_interval_seconds gave
    h_name,                     \* a tool handler alone: the tool it belongs to
    h_arguments,                \* a tool handler alone: tool_call.function.arguments
    h_pc,                       \* a tool handler alone: where it stands
    h_input,                    \* a tool handler alone: what _parse_input gave
    h_result,                   \* a tool handler alone: the text returned or the exception raised
    h_sent,                     \* a tool handler alone: the calls of social_media.send
    tools,                      \* tool catalog alone: Agent._tools
    discovered,                 \* tool catalog alone: the names list_tools() gives
    invocations                 \* tool catalog alone: the invocations of the one Agent

schedVars == <<hub_ready, connects, schedule_interval_seconds, response_tasks,
               scheduled_tasks, tasks, handlers, idle_loops, ticks, readyq, history>>
filterVars == <<f_message, f_verdict>>
agentVars == <<call_pc, mcp_client, functions, ran_tools, responses, tool_tasks,
               chat_history, call_error, gather_exception>>
clientVars == <<is_ready, respond_task, respond_tasks, seen>>
mainVars == <<package, environ, parsed>>
handlerVars == <<h_name, h_arguments, h_pc, h_input, h_result, h_sent>>
catalogVars == <<tools, discovered, invocations>>
vars == <<schedVars, filterVars, agentVars, clientVars, mainVars, handlerVars, catalogVars>>

\* what the scheduler's steps leave alone
aux == <<filterVars, agentVars, clientVars, mainVars, handlerVars, catalogVars>>

\* float | None
NoInterval == [some |-> FALSE, secs |-> 0]
Seconds(n) == [some |-> TRUE, secs |-> n]
Hour == 3600
Minute == 60

TaskIds == 1..Len(tasks)
HandlerIds == 1..Len(handlers)

\* asyncio.Task.done()
done(r) == tasks[r].st # "pending"

Queued(h) == InSeq(h, readyq)

\* a new task for Agent: kind "resp" runs Trigger._respond(context), kind "idle"
\* runs the agent on the idle prompt
NewTask(kind, key) ==
    [kind |-> kind, key |-> key, st |-> "pending", phase |-> "new",
     must_cancel |-> FALSE, waiters |-> <<>>, ran_tools |-> FALSE,
     nreq |-> 0, sent |-> 0, gather |-> "none", fetched |-> <<>>,
     fetched_none |-> FALSE]

NoKey == <<"-", "-">>

\* the waiters of a task woken last one first
DoneHandles_last_first(r) ==
    <<<<"cb", r>>>> \o [i \in 1..Len(tasks[r].waiters) |->
                          <<"wake", tasks[r].waiters[Len(tasks[r].waiters) + 1 - i]>>]

\* Future.__schedule_callbacks of a finished task: its done-callback (registered
\* at creation), then the wake-ups of the tasks awaiting it, in that order
DoneHandles(r) ==
    <<<<"cb", r>>>> \o [i \in 1..Len(tasks[r].waiters) |-> <<"wake", tasks[r].waiters[i]>>]

\* Trigger.__init__: nothing recorded, nothing scheduled
SchedEmpty ==
    /\ hub_ready = FALSE
    /\ connects = 0
    /\ response_tasks = [k \in Keys |-> 0]
    /\ scheduled_tasks = {}
    /\ tasks = <<>>
    /\ handlers = <<>>
    /\ idle_loops = <<>>
    /\ ticks = 0
    /\ readyq = <<>>
    /\ history = [k \in Keys |-> <<>>]

SchedInit ==
    /\ schedule_interval_seconds \in {NoInterval, Seconds(0), Seconds(Hour)}
    /\ SchedEmpty

\* ------------------------------------------------------------ the platform
\* the configurations with an idle interval are explored with fewer messages
MsgQuota ==
    IF ~schedule_interval_seconds.some THEN MaxMsgs
    ELSE IF schedule_interval_seconds.secs = Minute THEN MaxMinuteMsgs
    ELSE MaxIdleMsgs

\* the idle invocations explored under the configured interval
IdleQuota ==
    IF schedule_interval_seconds.secs = Minute THEN MaxMinuteRuns ELSE MaxIdleRuns

\* The platform posts `message` in conversation `key` and dispatches on_message:
\* a new task whose first step is put on the loop.  DiscordClient.on_message
\* forwards every event to the callback, ready or not.
Deliver(key, message) ==
    /\ Len(handlers) < MsgQuota
    /\ handlers' = Append(handlers,
                          [key |-> key, msg |-> <<message>>, pc |-> "queued",
                           elig |-> FALSE, pred |-> 0])
    /\ readyq' = Append(readyq, <<"handler", Len(handlers) + 1>>)
    /\ history' = [history EXCEPT ![key] = <<message>>]
    /\ UNCHANGED <<aux, hub_ready, connects, schedule_interval_seconds, response_tasks,
                   scheduled_tasks, tasks, idle_loops, ticks>>

\* The messages of conversation `key` are deleted on the platform:
\* channel.history(limit=1) of DiscordClient.messages then yields nothing.  The
\* scheduler subscribes to no deletion event.
delete_messages(key) ==
    /\ history[key] # <<>>
    /\ history' = [history EXCEPT ![key] = <<>>]
    /\ UNCHANGED <<aux, hub_ready, connects, schedule_interval_seconds, response_tasks,
                   scheduled_tasks, tasks, handlers, idle_loops, ticks, readyq>>

\* an interval test that looks for None only
idle_enabled_not_none(interval) == interval.some

\* the interval test of Trigger.connect
idle_enabled(interval) == interval.some /\ interval.secs # 0 /\ interval.secs > 0

\* an idle loop that sleeps before its first coin flip
create_idle_loop_asleep(loops) == <<Append(loops, "sleeping"), <<>>>>

\* `asyncio.create_task(self._run_idle())` (Trigger.connect, line 79): the first
\* step of the loop, which begins with the coin flip, is put on the event loop.
\* Gives the new <<idle_loops, handles to enqueue>>.
create_idle_loop(loops) == <<Append(loops, "queued"), <<<<"idle", Len(loops) + 1>>>>>>

\* DiscordClient.on_ready -> Trigger.connect
connect ==
    /\ connects < MaxConnects
    /\ hub_ready' = TRUE
    /\ connects' = connects + 1
    /\ IF idle_enabled(schedule_interval_seconds)
       THEN /\ idle_loops' = create_idle_loop(idle_loops)[1]
            /\ readyq' = readyq \o create_idle_loop(idle_loops)[2]
       ELSE UNCHANGED <<idle_loops, readyq>>
    /\ UNCHANGED <<aux, schedule_interval_seconds, response_tasks, scheduled_tasks,
                   tasks, handlers, ticks, history>>

\* ------------------------------------------------------------ Trigger
\* _remove_response_task deleting nothing
remove_response_task_never(rt, key) == rt

\* _remove_response_task forgetting the runs of every conversation
remove_response_task_every(rt, key) == [k \in Keys |-> 0]

\* Trigger._remove_response_task(context)
remove_response_task(rt, key) ==
    IF rt[key] = 0 THEN rt ELSE [rt EXCEPT ![key] = 0]

\* the task recorded under every channel of the server
create_response_task_per_server(ts, rt, key) ==
    <<Append(ts, NewTask("resp", key)),
      [k \in Keys |-> IF k[1] = key[1] THEN Len(ts) + 1 ELSE rt[k]],
      <<<<"run", Len(ts) + 1>>>>>>

\* lines 113-119 of read_message: create the task, record it, register the
\* done-callback.  Gives the new <<tasks, response_tasks, handles to enqueue>>.
create_response_task(ts, rt, key) ==
    <<Append(ts, NewTask("resp", key)),
      [rt EXCEPT ![key] = Len(ts) + 1],
      <<<<"run", Len(ts) + 1>>>>>>

\* read_message never cancelling the task it finds
must_supersede_never(task) == FALSE

\* `if task and not task.done()` of read_message
must_supersede(task) == task # 0 /\ ~done(task)

\* a cancellation that reaches every task of the scheduler
cancel_every(ts, r) == [i \in DOMAIN ts |-> [ts[i] EXCEPT !.must_cancel = TRUE]]

\* Task.cancel() on a pending task: the CancelledError is thrown into the
\* coroutine at its next step.  A suspended task gets the future it awaits
\* cancelled, which puts its step on the loop.
cancel(ts, r) == [ts EXCEPT ![r].must_cancel = TRUE]

cancel_handles(r) == IF Queued(<<"run", r>>) THEN <<>> ELSE <<<<"run", r>>>>

\* The first step of an on_message task: Trigger.read_message up to `await task`
\* or to its end.
read_message(h) ==
    /\ readyq # <<>> /\ Head(readyq) = <<"handler", h>>
    /\ LET key == handlers[h].key
           message == handlers[h].msg[1]
           task == response_tasks[key]
       IN IF ~should_respond(message)
          THEN /\ handlers' = [handlers EXCEPT ![h].pc = "finished", ![h].msg = <<>>]
               /\ readyq' = Tail(readyq)
               /\ UNCHANGED <<tasks, response_tasks>>
          ELSE IF must_supersede(task)
          THEN /\ handlers' = [handlers EXCEPT ![h].pc = "await", ![h].msg = <<>>,
                                               ![h].elig = TRUE, ![h].pred = task]
               /\ tasks' = [cancel(tasks, task) EXCEPT
                               ![task].waiters = Append(tasks[task].waiters, h)]
               /\ readyq' = Tail(readyq) \o cancel_handles(task)
               /\ UNCHANGED response_tasks
          ELSE LET new == create_response_task(tasks, response_tasks, key)
               IN /\ handlers' = [handlers EXCEPT ![h].pc = "finished", ![h].msg = <<>>,
                                                  ![h].elig = TRUE]
                  /\ tasks' = new[1]
                  /\ response_tasks' = new[2]
                  /\ readyq' = Tail(readyq) \o new[3]
    /\ UNCHANGED <<aux, hub_ready, connects, schedule_interval_seconds, scheduled_tasks,
                   idle_loops, ticks, history>>

\* `await task` without the except clause
await_raises_uncaught(st) == st \in {"failed", "cancelled"}

\* `await task` inside `try: ... except asyncio.CancelledError: pass` (lines
\* 107-110): whether it raises for a task that ended in state st
await_raises(st) == st = "failed"

\* read_message resumed after `await task` (lines 109-119): the CancelledError
\* is swallowed, the entry of the key is removed, the replacement is created.
read_message_resume(h) ==
    /\ readyq # <<>> /\ Head(readyq) = <<"wake", h>>
    /\ LET key == handlers[h].key
           new == create_response_task(tasks, remove_response_task(response_tasks, key), key)
       IN IF await_raises(tasks[handlers[h].pred].st)
          THEN /\ handlers' = [handlers EXCEPT ![h].pc = "raised"]
               /\ readyq' = Tail(readyq)
               /\ UNCHANGED <<tasks, response_tasks>>
          ELSE /\ handlers' = [handlers EXCEPT ![h].pc = "finished"]
               /\ tasks' = new[1]
               /\ response_tasks' = new[2]
               /\ readyq' = Tail(readyq) \o new[3]
    /\ UNCHANGED <<aux, hub_ready, connects, schedule_interval_seconds, scheduled_tasks,
                   idle_loops, ticks, history>>

\* a pop that empties the registry
pop_every(registry, task_id) == {}

\* dict.pop(task_id) on the registry of idle tasks
pop(registry, task_id) == registry \ {task_id}

\* the done-callback of a task: `lambda task, context=context:
\* self._remove_response_task(context)` for a response task,
\* `self._scheduled_tasks.pop(task_id)` for an idle task
done_callback(r) ==
    /\ readyq # <<>> /\ Head(readyq) = <<"cb", r>>
    /\ readyq' = Tail(readyq)
    /\ IF tasks[r].kind = "resp"
       THEN /\ response_tasks' = remove_response_task(response_tasks, tasks[r].key)
            /\ UNCHANGED scheduled_tasks
       ELSE /\ scheduled_tasks' = pop(scheduled_tasks, r)
            /\ UNCHANGED response_tasks
    /\ UNCHANGED <<aux, hub_ready, connects, schedule_interval_seconds, tasks, handlers,
                   idle_loops, ticks, history>>

\* ------------------------------------------------------------ a task's steps
OtherVars == <<hub_ready, connects, schedule_interval_seconds, response_tasks,
               scheduled_tasks, handlers, idle_loops, ticks>>

AtHead(h) == readyq # <<>> /\ Head(readyq) = h

\* The task ends in state `st`: its callbacks are put on the loop.
Finish(r, st) ==
    /\ tasks' = [tasks EXCEPT ![r].st = st, ![r].phase = "end", ![r].must_cancel = FALSE,
                              ![r].fetched = <<>>, ![r].gather = "none"]
    /\ readyq' = Tail(readyq) \o DoneHandles(r)

\* A step of a task whose cancellation was requested: CancelledError is thrown
\* into the coroutine, nothing in _respond or Agent catches it.
task_cancelled(r) ==
    /\ AtHead(<<"run", r>>)
    /\ tasks[r].must_cancel
    /\ Finish(r, "cancelled")
    /\ UNCHANGED <<aux, OtherVars, history>>

\* Trigger._respond, line 60: the task suspends in social_media.messages(limit=1)
respond_start(r) ==
    /\ AtHead(<<"run", r>>)
    /\ ~tasks[r].must_cancel /\ tasks[r].phase = "new" /\ tasks[r].kind = "resp"
    /\ tasks' = [tasks EXCEPT ![r].phase = "fetch"]
    /\ readyq' = Tail(readyq)
    /\ UNCHANGED <<aux, OtherVars, history>>

\* The I/O a task is suspended in completes: its step is put on the loop.  The
\* history request answers with the conversation's most recent message.
io_complete(r) ==
    /\ r \in TaskIds /\ ~done(r) /\ ~Queued(<<"run", r>>)
    /\ tasks[r].phase = "fetch"
    /\ tasks' = [tasks EXCEPT ![r].fetched = history[tasks[r].key],
                              ![r].fetched_none = history[tasks[r].key] = <<>>]
    /\ readyq' = Append(readyq, <<"run", r>>)
    /\ UNCHANGED <<aux, OtherVars, history>>

\* a re-check that also skips when the fetch gave no message
recheck_skips_empty(messages) ==
    IF Len(messages) = 0 THEN TRUE ELSE ~should_respond(messages[1])

\* a re-check that lets every message through
recheck_skips_never(messages) == FALSE

\* the re-check of Trigger._respond, line 61
recheck_skips(messages) == Len(messages) > 0 /\ ~should_respond(messages[1])

\* a response without tool calls always ending the loop normally
no_tool_calls_outcome_break(ran) == "finished"

\* Agent.__call__, lines 492-495: a response without tool calls, `ran` being the
\* value of ran_tools
no_tool_calls_outcome(ran) == IF ran THEN "finished" ELSE "failed"

\* Agent.__call__, lines 479-501: one round.  The completion request is
\* synchronous; a response with tool calls suspends the task in gather().
Round(r, ran, tool_calls) ==
    IF tool_calls
    THEN /\ tasks' = [tasks EXCEPT ![r].phase = "tools", ![r].gather = "none",
                                   ![r].fetched = <<>>, ![r].ran_tools = ran,
                                   ![r].nreq = tasks[r].nreq + 1]
         /\ readyq' = Tail(readyq)
    ELSE /\ tasks' = [tasks EXCEPT ![r].st = no_tool_calls_outcome(ran),
                                   ![r].phase = "end", ![r].gather = "none",
                                   ![r].fetched = <<>>, ![r].ran_tools = ran,
                                   ![r].nreq = tasks[r].nreq + 1]
         /\ readyq' = Tail(readyq) \o DoneHandles(r)

\* the model's answers: the last request the bound allows is answered without
\* tool calls
Answers(r) == IF tasks[r].nreq + 1 < MaxRounds THEN BOOLEAN ELSE {FALSE}

\* Trigger._respond, lines 61-66: return, or call the agent, whose first round
\* (ran_tools = False) is requested
respond_recheck(r) ==
    /\ AtHead(<<"run", r>>)
    /\ ~tasks[r].must_cancel /\ tasks[r].phase = "fetch"
    /\ IF recheck_skips(tasks[r].fetched)
       THEN Finish(r, "finished")
       ELSE \E tool_calls \in Answers(r) : Round(r, tasks[r].ran_tools, tool_calls)
    /\ UNCHANGED <<aux, OtherVars, history>>

\* Trigger._run_idle, lines 49-53: the idle task calls the agent at once
idle_first_round(r) ==
    /\ AtHead(<<"run", r>>)
    /\ ~tasks[r].must_cancel /\ tasks[r].phase = "new" /\ tasks[r].kind = "idle"
    /\ \E tool_calls \in Answers(r) : Round(r, tasks[r].ran_tools, tool_calls)
    /\ UNCHANGED <<aux, OtherVars, history>>

\* gather() returned the results: they are appended, ran_tools = True (lines
\* 502-506), and the next round is requested
next_round(r) ==
    /\ AtHead(<<"run", r>>)
    /\ ~tasks[r].must_cancel /\ tasks[r].phase = "tools" /\ tasks[r].gather = "ok"
    /\ \E tool_calls \in Answers(r) : Round(r, TRUE, tool_calls)
    /\ UNCHANGED <<aux, OtherVars, history>>

\* gather() raised what a tool call raised (Agent._run_tool, line 410: unknown
\* tool; a handler's own exception): the invocation ends with it
tools_failed(r) ==
    /\ AtHead(<<"run", r>>)
    /\ ~tasks[r].must_cancel /\ tasks[r].phase = "tools" /\ tasks[r].gather = "exc"
    /\ Finish(r, "failed")
    /\ UNCHANGED <<aux, OtherVars, history>>

\* ------------------------------------------------------------ a round's tool calls
\* Agent._send_message, line 153: a send_message call of the round posts its
\* message (the platform reports it back like any message: Deliver, with the
\* agent as author).  Cancelled tool calls post nothing more.
tool_send(r) ==
    /\ r \in TaskIds /\ ~done(r)
    /\ tasks[r].phase = "tools" /\ ~Queued(<<"run", r>>) /\ ~tasks[r].must_cancel
    /\ tasks[r].sent < MaxSends
    /\ tasks' = [tasks EXCEPT ![r].sent = tasks[r].sent + 1]
    /\ UNCHANGED <<aux, OtherVars, readyq, history>>

\* gather() is done: every tool call returned ("ok"), or one raised ("exc":
\* Agent._run_tool, line 410, or a handler's own exception); the task is woken
tools_complete(r, result) ==
    /\ r \in TaskIds /\ ~done(r)
    /\ tasks[r].phase = "tools" /\ ~Queued(<<"run", r>>)
    /\ tasks' = [tasks EXCEPT ![r].gather = result]
    /\ readyq' = Append(readyq, <<"run", r>>)
    /\ UNCHANGED <<aux, OtherVars, history>>

\* ------------------------------------------------------------ the idle loop
\* random.randint(0, 1); the bound on idle invocations turns the coin
Coins == IF Cardinality({r \in TaskIds : tasks[r].kind = "idle"}) < IdleQuota
         THEN {0, 1} ELSE {1}

\* one iteration of Trigger._run_idle up to asyncio.sleep
run_idle(i) ==
    /\ AtHead(<<"idle", i>>)
    /\ \E coin \in Coins :
          IF coin = 0
          THEN /\ tasks' = Append(tasks, NewTask("idle", NoKey))
               /\ scheduled_tasks' = scheduled_tasks \cup {Len(tasks) + 1}
               /\ readyq' = Tail(readyq) \o <<<<"run", Len(tasks) + 1>>>>
          ELSE /\ readyq' = Tail(readyq)
               /\ UNCHANGED <<tasks, scheduled_tasks>>
    /\ idle_loops' = [idle_loops EXCEPT ![i] = "sleeping"]
    /\ UNCHANGED <<aux, hub_ready, connects, schedule_interval_seconds, response_tasks,
                   handlers, ticks, history>>

\* asyncio.sleep(interval) of an idle loop is over
timer(i) ==
    /\ i \in 1..Len(idle_loops) /\ idle_loops[i] = "sleeping"
    /\ ticks < MaxTicks
    /\ ticks' = ticks + 1
    /\ idle_loops' = [idle_loops EXCEPT ![i] = "queued"]
    /\ readyq' = Append(readyq, <<"idle", i>>)
    /\ UNCHANGED <<aux, hub_ready, connects, schedule_interval_seconds, response_tasks,
                   scheduled_tasks, tasks, handlers, history>>

\* ------------------------------------------------------------ specification
RunIds == 1..(MaxMsgs + MaxIdleRuns)

SchedNext ==
    \/ \E key \in Keys, message \in Inbox : Deliver(key, message)
    \/ connect
    \/ \E h \in 1..MaxMsgs : read_message(h)
    \/ \E h \in 1..MaxMsgs : read_message_resume(h)
    \/ \E r \in RunIds : done_callback(r)
    \/ \E r \in RunIds : task_cancelled(r)
    \/ \E r \in RunIds : respond_start(r)
    \/ \E r \in RunIds : io_complete(r)
    \/ \E r \in RunIds : respond_recheck(r)
    \/ \E r \in RunIds : idle_first_round(r)
    \/ \E r \in RunIds : next_round(r)
    \/ \E r \in RunIds : tools_failed(r)
    \/ \E r \in RunIds : tool_send(r)
    \/ \E r \in RunIds, result \in {"ok", "exc"} : tools_complete(r, result)
    \/ \E i \in 1..MaxConnects : run_idle(i)
    \/ \E i \in 1..MaxConnects : timer(i)

\* ------------------------------------------------------------ the filter alone
Tokens == {Tok(FALSE, "hi"), Tok(TRUE, "Proctor"), Tok(TRUE, "Bob"), Tok(TRUE, "Carol")}

SeqsUpTo(S, n) == UNION {[1..m -> S] : m \in 0..n}

AllMessages == {Message(c, a) : c \in SeqsUpTo(Tokens, MaxWords), a \in Authors}

NoMessage == Message(<<>>, "-")

FilterIdle == f_message = NoMessage /\ f_verdict = "unasked"

FilterInit == f_message \in AllMessages /\ f_verdict = "unasked"

\* Trigger._should_respond applied to the message
ask ==
    /\ f_verdict = "unasked"
    /\ f_verdict' = IF should_respond(f_message) THEN "respond" ELSE "ignore"
    /\ UNCHANGED <<f_message, schedVars, agentVars, clientVars, mainVars, handlerVars, catalogVars>>

\* ------------------------------------------------------------ one invocation alone
\* the tools Agent.__call__ always registers
Builtins == {"send_message", "react", "read_messages", "list_servers", "list_channels",
             "get_memories", "save_memory"}

\* the tools the MCP server lists
McpTools == {"remember"}

\* the tool names a model response may carry
ToolNames == {"send_message", "list_channels", "remember", "bogus"}

\* the argument payloads a tool call may carry: a JSON object with the keys the
\* handler reads, and a JSON object without them
ArgKinds == {"good", "missing"}

\* a tool call of a response: ChatCompletionMessageToolCall
ToolCall(name, args) == [name |-> name, args |-> args]

ToolCalls == UNION {[1..m -> {ToolCall(n, k) : n \in ToolNames, k \in ArgKinds}] :
                       m \in 0..MaxCalls}

ChildIds == 1..Len(tool_tasks)

NoResult == [role |-> "none", tool_call_id |-> <<0, 0>>, name |-> "", content |-> ""]

\* an entry of chat_history that is not a tool result
Entry(role) == [role |-> role, tool_call_id |-> <<0, 0>>, name |-> "", content |-> ""]

\* what Agent._run_tool returns (lines 423-428)
tool_result(task, content) ==
    [role |-> "tool", tool_call_id |-> task.id, name |-> task.name, content |-> content]

\* the names of the entries' roles
Roles(h) == [i \in 1..Len(h) |-> h[i].role]

AgentIdle ==
    /\ call_pc = "idle" /\ mcp_client = FALSE /\ functions = {} /\ ran_tools = FALSE
    /\ responses = <<>> /\ tool_tasks = <<>> /\ chat_history = <<>> /\ call_error = "none"
    /\ gather_exception = "none"

AgentInit ==
    /\ call_pc = "idle" /\ mcp_client \in BOOLEAN /\ functions = {} /\ ran_tools = FALSE
    /\ responses = <<>> /\ tool_tasks = <<>> /\ chat_history = <<>> /\ call_error = "none"
    /\ gather_exception = "none"

\* Agent.__call__ up to its first suspension: the table of functions is filled
\* after `await list_tools()` when an MCP client is set, at once otherwise
call ==
    /\ call_pc = "idle"
    /\ IF mcp_client
       THEN /\ call_pc' = "list_tools"
            /\ UNCHANGED <<functions, chat_history>>
       ELSE /\ call_pc' = "request"
            /\ functions' = Builtins
            /\ chat_history' = <<Entry("system"), Entry("user")>>
    /\ UNCHANGED <<mcp_client, ran_tools, responses, tool_tasks, call_error,
                   gather_exception, schedVars, filterVars, clientVars, mainVars, handlerVars, catalogVars>>

\* `await self._mcp_client.list_tools()` returned
listed ==
    /\ call_pc = "list_tools"
    /\ call_pc' = "request"
    /\ functions' = McpTools \cup Builtins
    /\ chat_history' = <<Entry("system"), Entry("user")>>
    /\ UNCHANGED <<mcp_client, ran_tools, responses, tool_tasks, call_error,
                   gather_exception, schedVars, filterVars, clientVars, mainVars, handlerVars, catalogVars>>

\* one turn of `while True` up to its suspension or its end: the model request,
\* then the error, the break or the gather of the _run_tool tasks
request(tool_calls) ==
    /\ call_pc = "request"
    /\ Len(responses) + 1 < MaxRequests \/ tool_calls = <<>>
    /\ responses' = Append(responses, Len(tool_calls))
    /\ IF tool_calls = <<>>
       THEN /\ call_pc' = IF no_tool_calls_outcome(ran_tools) = "failed"
                          THEN "raised" ELSE "returned"
            /\ call_error' = IF no_tool_calls_outcome(ran_tools) = "failed"
                             THEN "No tools were called" ELSE "none"
            /\ UNCHANGED <<tool_tasks, gather_exception>>
       ELSE /\ call_pc' = "gather"
            /\ tool_tasks' = [i \in 1..Len(tool_calls) |->
                                 [id |-> <<Len(responses) + 1, i>>,
                                  name |-> tool_calls[i].name,
                                  args |-> tool_calls[i].args,
                                  st |-> "new", order |-> 0, result |-> NoResult]]
            /\ gather_exception' = "none"
            /\ UNCHANGED call_error
    /\ UNCHANGED <<mcp_client, functions, ran_tools, chat_history, schedVars, filterVars, mainVars, handlerVars, catalogVars,
                   clientVars>>

\* a tool call never being looked up in the table
known_always(name, fns) == TRUE

\* `tool_call.function.name not in functions` (Agent._run_tool, line 409), negated
known(name, fns) == name \in fns

\* a handler up to its first await: what reading its arguments does.
\* _send_message (line 141) and _list_channels (line 94) subscript the parsed
\* input; _mcp_tool passes it on.
handler_prefix(name, args) ==
    IF name \in {"send_message", "list_channels"} /\ args = "missing"
    THEN "KeyError" ELSE "awaits"

\* a handler whose external call failed: _send_message (lines 152-157) and
\* _mcp_tool (lines 73-76) catch the exception and return a text,
\* _list_channels (line 97) does not
handler_failure(name) ==
    IF name = "list_channels" THEN "raised" ELSE "returned"

\* the place of a _run_tool task that ends now among the tasks of its gather,
\* in the order in which they end
completion_order(ts) ==
    1 + Cardinality({j \in 1..Len(ts) : ts[j].st \in {"returned", "raised"}})

\* the exception a gather propagates is the first one raised by its tasks
first_exception(e) == IF gather_exception = "none" THEN e ELSE gather_exception

\* the first step of a _run_tool task (the tasks of a gather start in order)
run_tool(i) ==
    /\ i \in ChildIds /\ tool_tasks[i].st = "new"
    /\ \A j \in 1..(i - 1) : tool_tasks[j].st # "new"
    /\ IF ~known(tool_tasks[i].name, functions)
       THEN /\ tool_tasks' = [tool_tasks EXCEPT ![i].st = "raised",
                                 ![i].order = completion_order(tool_tasks)]
            /\ gather_exception' = first_exception("Unknown tool")
       ELSE IF handler_prefix(tool_tasks[i].name, tool_tasks[i].args) = "KeyError"
       THEN /\ tool_tasks' = [tool_tasks EXCEPT ![i].st = "raised",
                                 ![i].order = completion_order(tool_tasks)]
            /\ gather_exception' = first_exception("KeyError")
       ELSE /\ tool_tasks' = [tool_tasks EXCEPT ![i].st = "awaiting"]
            /\ UNCHANGED gather_exception
    /\ UNCHANGED <<call_pc, mcp_client, functions, ran_tools, responses, chat_history,
                   call_error, schedVars, filterVars, clientVars, mainVars, handlerVars, catalogVars>>

\* the external call a handler awaits is over (it succeeded or it failed), and
\* the _run_tool task runs to its end
tool_returned(i, succeeded) ==
    /\ i \in ChildIds /\ tool_tasks[i].st = "awaiting"
    /\ IF succeeded
       THEN /\ tool_tasks' = [tool_tasks EXCEPT ![i].st = "returned",
                                 ![i].order = completion_order(tool_tasks),
                                 ![i].result = tool_result(tool_tasks[i], "result")]
            /\ UNCHANGED gather_exception
       ELSE IF handler_failure(tool_tasks[i].name) = "returned"
       THEN /\ tool_tasks' = [tool_tasks EXCEPT ![i].st = "returned",
                                 ![i].order = completion_order(tool_tasks),
                                 ![i].result = tool_result(tool_tasks[i], "error text")]
            /\ UNCHANGED gather_exception
       ELSE /\ tool_tasks' = [tool_tasks EXCEPT ![i].st = "raised",
                                 ![i].order = completion_order(tool_tasks)]
            /\ gather_exception' = first_exception("external call failed")
    /\ UNCHANGED <<call_pc, mcp_client, functions, ran_tools, responses, chat_history,
                   call_error, schedVars, filterVars, clientVars, mainVars, handlerVars, catalogVars>>

\* a gather that returns as soon as one task returned
gather_done_any(ts) == \E i \in 1..Len(ts) : ts[i].st = "returned"

\* asyncio.gather returns its results when every task returned
gather_done(ts) == \A i \in 1..Len(ts) : ts[i].st = "returned"

\* a round counting only when one of its tool calls succeeded
round_ran_tools_succeeded(ts) == \E i \in 1..Len(ts) : ts[i].result.content = "result"

\* `ran_tools = True` (line 506), whatever the results of the round were
round_ran_tools(ts) == TRUE

\* a loop that stops after its second round
while_true_capped(rounds) == IF rounds >= 2 THEN "returned" ELSE "request"

\* `while True:` (Agent.__call__, line 478): after a round, whatever the number
\* of rounds so far, the next turn asks the model again
while_true(rounds) == "request"

\* results handed over in the order in which the tasks ended
gather_results_as_completed(ts) ==
    [k \in 1..Len(ts) |-> ts[CHOOSE i \in 1..Len(ts) : ts[i].order = k].result]

\* what asyncio.gather returns: the results in the order of the awaitables it
\* was given, the order of response.tool_calls (lines 496-501)
gather_results(ts) == [i \in 1..Len(ts) |-> ts[i].result]

\* Agent.__call__ resumed by the gather: with the first exception of a task, or
\* with the results once every task returned
gathered ==
    /\ call_pc = "gather"
    /\ \A i \in ChildIds : tool_tasks[i].st # "new"
    /\ IF \E i \in ChildIds : tool_tasks[i].st = "raised"
       THEN /\ call_pc' = "raised"
            /\ call_error' = gather_exception
            /\ UNCHANGED <<ran_tools, chat_history>>
       ELSE /\ gather_done(tool_tasks)
            /\ call_pc' = while_true(Len(responses))
            /\ chat_history' = chat_history \o <<Entry("assistant")>>
                                  \o gather_results(tool_tasks)
            /\ ran_tools' = round_ran_tools(tool_tasks)
            /\ UNCHANGED call_error
    /\ UNCHANGED <<mcp_client, functions, responses, tool_tasks, gather_exception,
                   schedVars, filterVars, clientVars, mainVars, handlerVars, catalogVars>>

AgentNext ==
    \/ call
    \/ listed
    \/ \E tool_calls \in ToolCalls : request(tool_calls)
    \/ \E i \in 1..MaxCalls : run_tool(i)
    \/ \E i \in 1..MaxCalls, succeeded \in BOOLEAN : tool_returned(i, succeeded)
    \/ gathered

\* ------------------------------------------------------------ friendbot's DiscordClient
\* get_all_members(): the members the client sees
client_members == {"Proctor", "Bob"}

RespondIds == 1..Len(respond_tasks)

\* DiscordClient._mentioned_in
mentioned_in(message) ==
    \E i \in 1..Len(message.mentions) : message.mentions[i] \in client_members

\* the condition of DiscordClient._mentions_other_user, which is also what it returns
mentions_other_user(message) == Len(message.mentions) > 0 /\ ~mentioned_in(message)

\* `self._respond_task and not self._respond_task.done()`
respond_task_running == respond_task # 0 /\ respond_tasks[respond_task].st = "pending"

\* self._respond_task.cancel() when the condition of the caller holds
cancel_respond_task(cond) ==
    IF cond /\ respond_task_running
    THEN [respond_tasks EXCEPT ![respond_task].must_cancel = TRUE]
    ELSE respond_tasks

\* DiscordClient._should_respond_to: its result
should_respond_to(message) ==
    IF message.author = AgentName THEN FALSE
    ELSE IF mentions_other_user(message) THEN FALSE
    ELSE TRUE

\* DiscordClient._should_respond_to: the tasks it leaves (_mentions_other_user is
\* only reached for somebody else's message)
should_respond_to_effect(message) ==
    cancel_respond_task(message.author # AgentName /\ mentions_other_user(message))

ClientIdle ==
    /\ is_ready = FALSE /\ respond_task = 0 /\ respond_tasks = <<>> /\ seen = <<>>

\* DiscordClient.on_ready
client_on_ready ==
    /\ Cardinality({t \in RespondIds : respond_tasks[t].kind = "old"}) < MaxReady
    /\ is_ready' = TRUE
    /\ respond_tasks' = Append(cancel_respond_task(TRUE),
                               [kind |-> "old", st |-> "pending", must_cancel |-> FALSE])
    /\ respond_task' = Len(respond_tasks) + 1
    /\ UNCHANGED <<seen, schedVars, filterVars, agentVars, mainVars, handlerVars, catalogVars>>

\* DiscordClient.on_message
client_on_message(message) ==
    /\ Len(seen) < MaxSeen
    /\ IF ~is_ready
       THEN /\ seen' = Append(seen, "not ready")
            /\ UNCHANGED <<respond_task, respond_tasks>>
       ELSE IF ~should_respond_to(message)
       THEN /\ seen' = Append(seen, "rejected")
            /\ respond_tasks' = should_respond_to_effect(message)
            /\ UNCHANGED respond_task
       ELSE /\ seen' = Append(seen, "accepted")
            /\ respond_tasks' = Append(cancel_respond_task(TRUE),
                                       [kind |-> "message", st |-> "pending",
                                        must_cancel |-> FALSE])
            /\ respond_task' = Len(respond_tasks) + 1
    /\ UNCHANGED <<is_ready, schedVars, filterVars, agentVars, mainVars, handlerVars, catalogVars>>

\* a task of the client runs on: to its end, or to the CancelledError when its
\* cancellation was requested
respond_task_ends(t) ==
    /\ t \in RespondIds /\ respond_tasks[t].st = "pending"
    /\ respond_tasks' = [respond_tasks EXCEPT
                            ![t].st = IF respond_tasks[t].must_cancel
                                      THEN "cancelled" ELSE "finished",
                            ![t].must_cancel = FALSE]
    /\ UNCHANGED <<is_ready, respond_task, seen, schedVars, filterVars, agentVars, mainVars, handlerVars, catalogVars>>

ClientNext ==
    \/ client_on_ready
    \/ \E message \in Inbox : client_on_message(message)
    \/ \E t \in 1..(MaxSeen + MaxReady) : respond_task_ends(t)

\* ------------------------------------------------------------ main
\* A str is the sequence of its characters.
Digits == {"0", "1", "2", "3", "4", "5", "6", "7", "8", "9"}

digit == "0" :> 0 @@ "1" :> 1 @@ "2" :> 2 @@ "3" :> 3 @@ "4" :> 4 @@ "5" :> 5 @@ "6" :> 6 @@ "7" :> 7 @@ "8" :> 8 @@ "9" :> 9

\* the upper-case letters and what str.lower() makes of them
Upper ==
    "A" :> "a" @@ "B" :> "b" @@ "C" :> "c" @@ "D" :> "d" @@ "E" :> "e" @@ "F" :> "f"
    @@ "G" :> "g" @@ "H" :> "h" @@ "I" :> "i" @@ "J" :> "j" @@ "K" :> "k" @@ "L" :>
    "l" @@ "M" :> "m" @@ "N" :> "n" @@ "O" :> "o" @@ "P" :> "p" @@ "Q" :> "q" @@ "R"
    :> "r" @@ "S" :> "s" @@ "T" :> "t" @@ "U" :> "u" @@ "V" :> "v" @@ "W" :> "w" @@
    "X" :> "x" @@ "Y" :> "y" @@ "Z" :> "z"

Whitespace == {" ", "\t", "\n"}

RECURSIVE lstrip(_)
lstrip(s) == IF s # <<>> /\ Head(s) \in Whitespace THEN lstrip(Tail(s)) ELSE s

RECURSIVE rstrip(_)
rstrip(s) ==
    IF s # <<>> /\ s[Len(s)] \in Whitespace THEN rstrip(SubSeq(s, 1, Len(s) - 1)) ELSE s

\* str.strip()
strip(s) == rstrip(lstrip(s))

\* str.lower()
lower(s) == [i \in 1..Len(s) |-> IF s[i] \in DOMAIN Upper THEN Upper[s[i]] ELSE s[i]]

\* str.upper(), to write inputs
upper(s) ==
    [i \in 1..Len(s) |->
        IF \E c \in DOMAIN Upper : Upper[c] = s[i]
        THEN CHOOSE c \in DOMAIN Upper : Upper[c] = s[i] ELSE s[i]]

\* a float is kept in thousandths: exact for up to three decimals
Milli == 1000

None == [kind |-> "None", milli |-> 0]
Float(m) == [kind |-> "float", milli |-> m]
ValueError == [kind |-> "ValueError", milli |-> 0]

IsDigits(s) == \A i \in 1..Len(s) : s[i] \in Digits

\* the number a string of digits writes (0 for the empty string)
RECURSIVE int(_)
int(s) == IF s = <<>> THEN 0 ELSE 10 * int(SubSeq(s, 1, Len(s) - 1)) + digit[s[Len(s)]]

RECURSIVE Pow10(_)
Pow10(n) == IF n = 0 THEN 1 ELSE 10 * Pow10(n - 1)

\* a decimal literal: digits with at most one point and at least one digit
is_decimal(s) ==
    LET dots == {i \in 1..Len(s) : s[i] = "."}
    IN IF dots = {} THEN s # <<>> /\ IsDigits(s)
       ELSE /\ Cardinality(dots) = 1
            /\ LET d == CHOOSE i \in dots : TRUE
               IN /\ IsDigits(SubSeq(s, 1, d - 1)) /\ IsDigits(SubSeq(s, d + 1, Len(s)))
                  /\ Len(s) > 1

\* its value, in thousandths
decimal_value(s) ==
    LET dots == {i \in 1..Len(s) : s[i] = "."}
        d == IF dots = {} THEN Len(s) + 1 ELSE CHOOSE i \in dots : TRUE
        frac == SubSeq(s, d + 1, Len(s))
    IN int(SubSeq(s, 1, d - 1)) * Milli + (int(frac) * Milli) \div Pow10(Len(frac))

\* the spellings float() takes for values that are not finite
NonFinite == {<<"i", "n", "f">>, <<"i", "n", "f", "i", "n", "i", "t", "y">>, <<"n", "a", "n">>}

\* float(s) for a stripped, lower-case s without exponent or underscore: an
\* optional sign, then a decimal literal or inf, infinity, nan.  A nan compares
\* false with everything and is kept as 0, an infinity as +-1.
float(s) ==
    LET signed == s # <<>> /\ s[1] \in {"+", "-"}
        body == IF signed THEN Tail(s) ELSE s
        sign == IF signed /\ s[1] = "-" THEN 0 - 1 ELSE 1
    IN IF body \in NonFinite
       THEN [kind |-> IF body[1] = "n" THEN "nan" ELSE "inf",
             milli |-> IF body[1] = "n" THEN 0 ELSE sign]
       ELSE IF is_decimal(body) THEN Float(sign * decimal_value(body))
       ELSE ValueError

\* re.fullmatch(r"(\d+(?:\.\d*)?)([smh])", s) matches
fullmatch(s) ==
    /\ Len(s) >= 2
    /\ s[Len(s)] \in {"s", "m", "h"}
    /\ s[1] \in Digits
    /\ is_decimal(SubSeq(s, 1, Len(s) - 1))

\* every unit taken for seconds
unit_factor_seconds(unit) == 1

\* lines 47-52: the factor of a unit
unit_factor(unit) ==
    CASE unit = "s" -> 1
      [] unit = "m" -> Minute
      [] unit = "h" -> Minute * Minute

DisablingTokens ==
    {<<"0">>, <<"o", "f", "f">>, <<"f", "a", "l", "s", "e">>,
     <<"d", "i", "s", "a", "b", "l", "e", "d">>, <<"n", "o", "n", "e">>, <<"n", "o">>}

\* os.getenv: None, or the text of the variable
Unset == [set |-> FALSE, text |-> <<>>]
Text(s) == [set |-> TRUE, text |-> s]

Packages == {"vercade", "friendbot"}

\* what the first test gives for a value that is None or blank:
\* vercade/__init__.py:27 returns None, friendbot/__init__.py:26 returns 60.0 * 60.0
blank_result(pkg) == IF pkg = "friendbot" THEN Float(Minute * Minute * Milli) ELSE None

\* _parse_schedule_interval_seconds(value) of package pkg
parse_schedule_interval_seconds(pkg, value) ==
    IF ~value.set \/ strip(value.text) = <<>> THEN blank_result(pkg)
    ELSE LET normalized == lower(strip(value.text))
             amount == float(SubSeq(normalized, 1, Len(normalized) - 1))
             unit == normalized[Len(normalized)]
         IN IF normalized \in DisablingTokens THEN None
            ELSE IF float(normalized) # ValueError THEN float(normalized)
            ELSE IF ~fullmatch(normalized) THEN ValueError
            ELSE Float(amount.milli * unit_factor(unit))

\* the float | None handed to Trigger(..., schedule_interval_seconds=...): the
\* float in thousandths, which Trigger.connect only compares with zero
interval(result) == IF result = None THEN NoInterval ELSE Seconds(result.milli)

\* the values of the environment variable: every text of up to MaxChars
\* characters of Alphabet, and the documented ones in three spellings
MaxChars == 3
Alphabet == {"0", "1", "5", ".", "s", "m", "h", "x", " ", "-"}

Documented ==
    DisablingTokens \cup NonFinite \cup
    {<<"3", "0", "0">>, <<"4", "5", "s">>, <<"1", "5", "m">>, <<"2", "h">>, <<"3", "x">>,
     <<"1", ".", "5", "h">>, <<"7", "2", "0", "0">>}

Environs ==
    {Unset}
    \cup {Text(s) : s \in UNION {[1..n -> Alphabet] : n \in 0..MaxChars}}
    \cup {Text(s) : s \in Documented}
    \cup {Text(upper(s)) : s \in Documented}
    \cup {Text(<<" ">> \o upper(<<s[1]>>) \o Tail(s) \o <<"\t">>) : s \in Documented}

Unparsed == [kind |-> "unparsed", milli |-> 0]

MainIdle ==
    /\ package = "vercade"
    /\ environ = Unset
    /\ parsed = Unparsed

MainInit ==
    /\ package \in Packages
    /\ environ \in Environs
    /\ parsed = Unparsed

\* main(): the variable is parsed and the Trigger constructed with the result
\* (lines 102-117); a ValueError ends the process before there is a Trigger
main ==
    /\ parsed = Unparsed
    /\ parsed' = parse_schedule_interval_seconds(package, environ)
    /\ IF parsed' = ValueError
       THEN UNCHANGED schedule_interval_seconds
       ELSE schedule_interval_seconds' = interval(parsed')
    /\ UNCHANGED <<package, environ, hub_ready, connects, response_tasks, scheduled_tasks,
                   tasks, handlers, idle_loops, ticks, readyq, history, filterVars,
                   agentVars, clientVars, handlerVars, catalogVars>>

\* proctor.run(...): the platform signals readiness to the Trigger of main()
main_ready ==
    /\ parsed \notin {Unparsed, ValueError}
    /\ connect

MainNext == main \/ main_ready

\* ------------------------------------------------------------ a tool handler
\* Python values: a dict of str to str by its items, a str by its text, an int
\* by its number, a bool, None, a list by its length
Dict(items) == [type |-> "dict", text |-> "", items |-> items, n |-> Cardinality(items)]
Str(text) == [type |-> "str", text |-> text, items |-> {}, n |-> 0]
Number(n) == [type |-> "int", text |-> "", items |-> {}, n |-> n]
Bool(b) == [type |-> "bool", text |-> "", items |-> {}, n |-> IF b THEN 1 ELSE 0]
NoneValue == [type |-> "NoneType", text |-> "", items |-> {}, n |-> 0]
List(n) == [type |-> "list", text |-> "", items |-> {}, n |-> n]
JSONDecodeError == [type |-> "JSONDecodeError", text |-> "", items |-> {}, n |-> 0]
NoInput == [type |-> "-", text |-> "", items |-> {}, n |-> 0]

\* the argument payloads of the model, each with what json.loads makes of it
JsonTable ==
    { 
      <<"{\"content\": \"hi\", \"server\": \"s1\", \"channel\": \"c1\"}",
        Dict({<<"content", "hi">>, <<"server", "s1">>, <<"channel", "c1">>})>>,
      <<"{\"content\": \"\", \"server\": \"s1\", \"channel\": \"c1\"}",
        Dict({<<"content", "">>, <<"server", "s1">>, <<"channel", "c1">>})>>,
      <<"{\"content\": \"hi\", \"server\": \"\", \"channel\": \"c1\"}",
        Dict({<<"content", "hi">>, <<"server", "">>, <<"channel", "c1">>})>>,
      <<"{\"content\": \"hi\", \"server\": \"s1\", \"channel\": \"\"}",
        Dict({<<"content", "hi">>, <<"server", "s1">>, <<"channel", "">>})>>,
      <<"{\"content\": \"hi\", \"server\": \"s1\", \"channel\": \"#\"}",
        Dict({<<"content", "hi">>, <<"server", "s1">>, <<"channel", "#">>})>>,
      <<"{\"content\": \"hi\", \"server\": \"s1\", \"channel\": \"#c1\"}",
        Dict({<<"content", "hi">>, <<"server", "s1">>, <<"channel", "#c1">>})>>,
      <<"{\"content\": \"\", \"server\": \"\", \"channel\": \"\"}",
        Dict({<<"content", "">>, <<"server", "">>, <<"channel", "">>})>>,
      <<"{\"content\": \"hi\", \"server\": \"s1\"}",
        Dict({<<"content", "hi">>, <<"server", "s1">>})>>,
      <<"{\"content\": \"hi\"}",
        Dict({<<"content", "hi">>})>>,
      <<"{\"server\": \"s1\", \"channel\": \"c1\"}",
        Dict({<<"server", "s1">>, <<"channel", "c1">>})>>,
      <<"{\"server\": \"s1\"}",
        Dict({<<"server", "s1">>})>>,
      <<"{\"server\": \"\"}",
        Dict({<<"server", "">>})>>,
      <<"{}",
        Dict({})>>,
      <<"hi there",
        JSONDecodeError>>,
      <<"",
        JSONDecodeError>>,
      <<"5",
        Number(5)>>,
      <<"0",
        Number(0)>>,
      <<"true",
        Bool(TRUE)>>,
      <<"false",
        Bool(FALSE)>>,
      <<"null",
        NoneValue>>,
      <<"\"hi\"",
        Str("hi")>>,
      <<"\"\"",
        Str("")>>,
      <<"[1]",
        List(1)>>,
      <<"[]",
        List(0)>> }

Arguments == {row[1] : row \in JsonTable}

\* json.loads(input): the value, or the JSONDecodeError
json_loads(input) == (CHOOSE row \in JsonTable : row[1] = input)[2]

\* Agent._parse_input
parse_input(input) ==
    IF json_loads(input) = JSONDecodeError THEN Dict({<<"content", input>>})
    ELSE json_loads(input)

\* bool(value)
truthy(value) ==
    CASE value.type = "str" -> value.text # ""
      [] value.type = "NoneType" -> FALSE
      [] OTHER -> value.n # 0

has_key(value, key) == \E item \in value.items : item[1] = key

\* value.get(key) of a dict
get(value, key) ==
    IF has_key(value, key)
    THEN Str((CHOOSE item \in value.items : item[1] = key)[2])
    ELSE NoneValue

\* the exception of value[key], "none" when there is none
subscript_error(value, key) ==
    IF value.type # "dict" THEN "TypeError"
    ELSE IF ~has_key(value, key) THEN "KeyError"
    ELSE "none"

\* the channel names of the model that start with "#", and each without it
Hashed == ("#" :> "" @@ "#c1" :> "c1")

\* Agent._clean_channel
clean_channel(channel) == IF channel \in DOMAIN Hashed THEN Hashed[channel] ELSE channel

Returns(text) == [kind |-> "return", text |-> text, call |-> <<>>]
Raises(exception) == [kind |-> "raise", text |-> exception, call |-> <<>>]
Awaits(sent) == [kind |-> "await", text |-> "", call |-> sent]

\* Agent._send_message from the parsed input to `await social_media.send(...)`
send_message(input) ==
    LET server == get(input, "server")
        channel == get(input, "channel")
        content == get(input, "content")
    IN IF subscript_error(input, "content") # "none"
       THEN Raises(subscript_error(input, "content"))
       ELSE IF ~truthy(server) THEN Returns("server must be a non-empty string")
       ELSE IF ~truthy(channel) THEN Returns("channel must be a non-empty string")
       ELSE IF ~truthy(content) THEN Returns("content must be a non-empty string")
       ELSE Awaits(<<[server |-> server.text, channel |-> clean_channel(channel.text),
                      content |-> content.text]>>)

\* Agent._list_channels from the parsed input to `await social_media.channels(server)`
list_channels(input) ==
    IF subscript_error(input, "server") # "none"
    THEN Raises(subscript_error(input, "server"))
    ELSE IF ~truthy(get(input, "server")) THEN Returns("server must be a non-empty string")
    ELSE Awaits(<<>>)

\* Agent._list_servers from the parsed input to `await social_media.servers()`
list_servers(input) ==
    IF truthy(input) THEN Returns("This tool does not take any arguments")
    ELSE Awaits(<<>>)

HandlerNames == {"send_message", "list_channels", "list_servers"}

handler_steps(name, input) ==
    CASE name = "send_message" -> send_message(input)
      [] name = "list_channels" -> list_channels(input)
      [] name = "list_servers" -> list_servers(input)

HandlerIdle ==
    /\ h_name = "-" /\ h_arguments = "" /\ h_pc = "idle" /\ h_input = NoInput
    /\ h_result = "" /\ h_sent = <<>>

\* _run_tool has called the handler of a built-in tool with the arguments of
\* the tool call
HandlerInit ==
    /\ h_name \in HandlerNames /\ h_arguments \in Arguments /\ h_pc = "called"
    /\ h_input = NoInput /\ h_result = "" /\ h_sent = <<>>

\* `input = self._parse_input(input)`
handler_parse ==
    /\ h_pc = "called"
    /\ h_input' = parse_input(h_arguments)
    /\ h_pc' = "parsed"
    /\ UNCHANGED <<h_name, h_arguments, h_result, h_sent, schedVars, filterVars,
                   agentVars, clientVars, mainVars, catalogVars>>

\* the handler from there to its return, its exception or its await
handler_body ==
    /\ h_pc = "parsed"
    /\ LET step == handler_steps(h_name, h_input)
       IN /\ h_pc' = CASE step.kind = "return" -> "returned"
                       [] step.kind = "raise" -> "raised"
                       [] step.kind = "await" -> "awaiting"
          /\ h_result' = step.text
          /\ h_sent' = h_sent \o step.call
    /\ UNCHANGED <<h_name, h_arguments, h_input, schedVars, filterVars,
                   agentVars, clientVars, mainVars, catalogVars>>

\* the awaited call of the platform is over: send's exception is caught
\* (lines 152-157), those of channels() and servers() are not
handler_resume(ok) ==
    /\ h_pc = "awaiting"
    /\ IF ok
       THEN /\ h_pc' = "returned"
            /\ h_result' = IF h_name = "send_message" THEN "Message sent" ELSE "names"
       ELSE IF h_name = "send_message"
       THEN /\ h_pc' = "returned"
            /\ h_result' = "Failed to send message"
       ELSE /\ h_pc' = "raised"
            /\ h_result' = "Exception"
    /\ UNCHANGED <<h_name, h_arguments, h_input, h_sent, schedVars, filterVars,
                   agentVars, clientVars, mainVars, catalogVars>>

HandlerNext ==
    \/ handler_parse
    \/ handler_body
    \/ \E ok \in BOOLEAN : handler_resume(ok)

\* ------------------------------------------------------------ the tool catalog
\* The invocations of one Agent: each fills its table of functions, then asks
\* the model with `tools=await self._get_tools()`, round after round.
MaxInvocations == 2      \* concurrent invocations of the one Agent
MaxCatalogRequests == 2  \* model requests of one of them

\* the built-in schemas in the order _get_tools appends them (lines 243-403)
BuiltinSchemas ==
    <<"list_servers", "list_channels", "send_message", "react", "read_messages",
      "get_memories", "save_memory">>

\* Agent._tools is None
NoTools == [some |-> FALSE, names |-> <<>>]
ToolList(names) == [some |-> TRUE, names |-> names]

\* no MCP client, or a client whose list_tools() gives these names
NoClient == [client |-> FALSE, names |-> <<>>]
Client(names) == [client |-> TRUE, names |-> names]

\* dict.update: the entries of `later` replace those of the same name
update(table, later) ==
    {entry \in table : \A other \in later : other[1] # entry[1]} \cup later

\* the `functions` table of Agent.__call__ (lines 438-460): the MCP tools, then
\* the built-in ones
functions_table ==
    update({<<discovered.names[i], "mcp_tool">> : i \in 1..Len(discovered.names)},
           {<<name, "builtin">> : name \in Builtins})

NewInvocation == [pc |-> "idle", functions |-> {}, seen |-> <<>>]

CatalogIdle ==
    /\ tools = NoTools /\ discovered = NoClient /\ invocations = <<>>

CatalogInit ==
    /\ tools = NoTools
    /\ discovered \in {NoClient, Client(<<>>), Client(<<"remember">>),
                       Client(<<"send_message">>), Client(<<"remember", "send_message">>)}
    /\ invocations = [i \in 1..MaxInvocations |-> NewInvocation]

InvocationIds == 1..Len(invocations)

\* Agent.__call__ up to its first suspension
invoke(i) ==
    /\ i \in InvocationIds /\ invocations[i].pc = "idle"
    /\ invocations' =
          IF discovered.client
          THEN [invocations EXCEPT ![i].pc = "list_tools"]
          ELSE [invocations EXCEPT ![i].pc = "request", ![i].functions = functions_table]
    /\ UNCHANGED <<tools, discovered, schedVars, filterVars, agentVars, clientVars,
                   mainVars, handlerVars>>

\* `await self._mcp_client.list_tools()` of __call__ returned
functions_listed(i) ==
    /\ i \in InvocationIds /\ invocations[i].pc = "list_tools"
    /\ invocations' = [invocations EXCEPT ![i].pc = "request",
                                          ![i].functions = functions_table]
    /\ UNCHANGED <<tools, discovered, schedVars, filterVars, agentVars, clientVars,
                   mainVars, handlerVars>>

\* completion(..., tools=snapshot) and what follows up to the next suspension:
\* a response with tool calls is gathered, one without ends the invocation
completion(inv, snapshot, tool_calls) ==
    [inv EXCEPT !.seen = Append(inv.seen, snapshot),
                !.pc = IF tool_calls THEN "gather" ELSE "ended"]

\* the head of a turn of `while True`: _get_tools returns the cached list, or
\* fills it without suspending when there is no MCP client, or caches the
\* empty list (`self._tools = []`, line 227) and awaits list_tools()
request_tools(i, tool_calls) ==
    /\ i \in InvocationIds /\ invocations[i].pc = "request"
    /\ Len(invocations[i].seen) + 1 < MaxCatalogRequests \/ ~tool_calls
    /\ IF tools.some
       THEN /\ invocations' = [invocations EXCEPT
                                 ![i] = completion(invocations[i], tools.names, tool_calls)]
            /\ UNCHANGED tools
       ELSE IF ~discovered.client
       THEN /\ tools' = ToolList(BuiltinSchemas)
            /\ invocations' = [invocations EXCEPT
                                 ![i] = completion(invocations[i], BuiltinSchemas, tool_calls)]
       ELSE /\ tools' = ToolList(<<>>)
            /\ invocations' = [invocations EXCEPT ![i].pc = "get_tools"]
    /\ UNCHANGED <<discovered, schedVars, filterVars, agentVars, clientVars,
                   mainVars, handlerVars>>

\* `await self._mcp_client.list_tools()` of _get_tools returned: the list is
\* extended by the MCP tools and the built-in ones, and the model is asked
get_tools_listed(i, tool_calls) ==
    /\ i \in InvocationIds /\ invocations[i].pc = "get_tools"
    /\ Len(invocations[i].seen) + 1 < MaxCatalogRequests \/ ~tool_calls
    /\ LET names == tools.names \o discovered.names \o BuiltinSchemas
       IN /\ tools' = ToolList(names)
          /\ invocations' = [invocations EXCEPT
                               ![i] = completion(invocations[i], names, tool_calls)]
    /\ UNCHANGED <<discovered, schedVars, filterVars, agentVars, clientVars,
                   mainVars, handlerVars>>

\* asyncio.gather of the round returned
round_gathered(i) ==
    /\ i \in InvocationIds /\ invocations[i].pc = "gather"
    /\ invocations' = [invocations EXCEPT ![i].pc = "request"]
    /\ UNCHANGED <<tools, discovered, schedVars, filterVars, agentVars, clientVars,
                   mainVars, handlerVars>>

\* the lists the MCP server may come to give
Relisted == {<<>>, <<"remember">>, <<"recall">>}

\* The MCP server changes the tools it lists: the next list_tools() gives
\* `names`.  Nothing of the Agent changes.
tools_relisted(names) ==
    /\ discovered.client /\ names # discovered.names
    /\ discovered' = Client(names)
    /\ UNCHANGED <<tools, invocations, schedVars, filterVars, agentVars, clientVars,
                   mainVars, handlerVars>>

CatalogNext ==
    \E i \in 1..MaxInvocations :
        \/ invoke(i)
        \/ functions_listed(i)
        \/ \E tool_calls \in BOOLEAN : request_tools(i, tool_calls)
        \/ \E tool_calls \in BOOLEAN : get_tools_listed(i, tool_calls)
        \/ round_gathered(i)

\* ------------------------------------------------------------ specifications
Init == SchedInit /\ FilterIdle /\ AgentIdle /\ ClientIdle /\ MainIdle /\ HandlerIdle /\ CatalogIdle

Next == SchedNext

\* the scheduler on the event loop
Spec == Init /\ [][Next]_vars

FilterSchedIdle ==
    /\ SchedInit
    /\ schedule_interval_seconds = NoInterval

\* one iteration of the event loop: the handle at the head of the queue is run
LoopStep ==
    \/ \E h \in 1..MaxMsgs : read_message(h) \/ read_message_resume(h)
    \/ \E r \in RunIds :
          \/ done_callback(r) \/ task_cancelled(r) \/ respond_start(r)
          \/ respond_recheck(r) \/ idle_first_round(r) \/ next_round(r)
          \/ tools_failed(r)
    \/ \E i \in 1..MaxConnects : run_idle(i)

\* the platform delivering the messages of one conversation only
FairNext ==
    \/ \E message \in Inbox : Deliver(<<"s1", "c1">>, message)
    \/ connect
    \/ LoopStep
    \/ \E r \in RunIds : io_complete(r) \/ tool_send(r)
    \/ \E r \in RunIds, result \in {"ok", "exc"} : tools_complete(r, result)
    \/ \E i \in 1..MaxConnects : timer(i)

\* the scheduler on an event loop that keeps running: a ready handle is run
FairSpec == Init /\ [][FairNext]_vars /\ WF_vars(LoopStep)

\* the idle timer of a minute beside the messages of one conversation
IdleSpecInit ==
    /\ schedule_interval_seconds = Seconds(Minute)
    /\ SchedEmpty /\ FilterIdle /\ AgentIdle /\ ClientIdle /\ MainIdle /\ HandlerIdle /\ CatalogIdle

IdleNext ==
    \/ Deliver(<<"s1", "c1">>, Message(<<Tok(FALSE, "hi")>>, "Bob"))
    \/ connect
    \/ LoopStep
    \/ \E r \in RunIds : io_complete(r)
    \/ \E r \in RunIds, result \in {"ok", "exc"} : tools_complete(r, result)
    \/ \E i \in 1..MaxConnects : timer(i)

IdleSpec == IdleSpecInit /\ [][IdleNext]_vars

\* the runs of one conversation whose messages may be deleted before a run
\* fetches the most recent one
RecheckSpecInit ==
    /\ schedule_interval_seconds = NoInterval
    /\ SchedEmpty /\ FilterIdle /\ AgentIdle /\ ClientIdle /\ MainIdle /\ HandlerIdle /\ CatalogIdle

RecheckNext ==
    \/ \E message \in Inbox : Deliver(<<"s1", "c1">>, message)
    \/ delete_messages(<<"s1", "c1">>)
    \/ \E h \in 1..MaxMsgs : read_message(h) \/ read_message_resume(h)
    \/ \E r \in RunIds :
          \/ done_callback(r) \/ task_cancelled(r) \/ respond_start(r)
          \/ io_complete(r) \/ respond_recheck(r) \/ next_round(r)
          \/ tools_failed(r) \/ tool_send(r)
    \/ \E r \in RunIds, result \in {"ok", "exc"} : tools_complete(r, result)

RecheckSpec == RecheckSpecInit /\ [][RecheckNext]_vars

\* the invocations of one Agent beside an MCP server whose tool list changes
RelistSpecInit == CatalogInit /\ FilterIdle /\ FilterSchedIdle /\ AgentIdle /\ ClientIdle /\ MainIdle /\ HandlerIdle

RelistNext ==
    \/ CatalogNext
    \/ \E names \in Relisted : tools_relisted(names)

RelistSpec == RelistSpecInit /\ [][RelistNext]_vars

\* the eligibility filter on every message of up to MaxWords words
FilterSpecInit == FilterInit /\ FilterSchedIdle /\ AgentIdle /\ ClientIdle /\ MainIdle /\ HandlerIdle /\ CatalogIdle

FilterSpec == FilterSpecInit /\ [][ask]_vars

\* one invocation of the agent, with and without an MCP client
AgentSpecInit == AgentInit /\ FilterIdle /\ FilterSchedIdle /\ ClientIdle /\ MainIdle /\ HandlerIdle /\ CatalogIdle

AgentSpec == AgentSpecInit /\ [][AgentNext]_vars

\* friendbot's DiscordClient, which filters and schedules by itself
ClientSpecInit ==
    ClientIdle /\ FilterIdle /\ FilterSchedIdle /\ AgentIdle /\ MainIdle /\ HandlerIdle /\ CatalogIdle

ClientSpec == ClientSpecInit /\ [][ClientNext]_vars

\* the invocations of one Agent and its cached tool schemas
CatalogSpecInit ==
    /\ CatalogInit
    /\ FilterSchedIdle /\ FilterIdle /\ AgentIdle /\ ClientIdle /\ MainIdle /\ HandlerIdle

CatalogSpec == CatalogSpecInit /\ [][CatalogNext]_vars

\* the handlers of the built-in tools on every argument payload
HandlerSpecInit ==
    /\ HandlerInit
    /\ FilterSchedIdle /\ FilterIdle /\ AgentIdle /\ ClientIdle /\ MainIdle /\ CatalogIdle

HandlerSpec == HandlerSpecInit /\ [][HandlerNext]_vars

\* main() on every value of the environment variable, then readiness.  Before
\* main() the interval is the default of Trigger.__init__ (trigger.py:22).
MainSpecInit ==
    /\ MainInit
    /\ schedule_interval_seconds = Seconds(Hour)
    /\ SchedEmpty /\ FilterIdle /\ AgentIdle /\ ClientIdle /\ HandlerIdle /\ CatalogIdle

MainSpec == MainSpecInit /\ [][MainNext]_vars

\* ------------------------------------------------------------ properties
\* the names a content mentions, as a set
MentionSet(content) == {content[i].word : i \in {j \in 1..Len(content) : content[j].at}}

\* the tasks created for a conversation
RunsOf(key) == {r \in TaskIds : tasks[r].kind = "resp" /\ tasks[r].key = key}

\* the step taken is the first step of handler h (read_message on its message)
Handled(h) == handlers[h].pc = "queued" /\ handlers'[h].pc # "queued"

\* the message of the last handler of its conversation is the conversation's latest
LastOfKey(h) == \A g \in HandlerIds : g > h => handlers[g].key # handlers[h].key

\* eligible messages that arrived for a conversation, handled or not yet
EligibleArrived(key) ==
    Cardinality({h \in HandlerIds : handlers[h].key = key /\
                    (handlers[h].elig \/
                     (handlers[h].pc = "queued" /\ should_respond(handlers[h].msg[1])))})

\* C1: in every reachable state, each conversation has at most one active run
\* (created and not yet terminated).
C1_AtMostOneActiveRun ==
    \A key \in Keys : Cardinality({r \in RunsOf(key) : ~done(r)}) <= 1

\* C2: while read_message waits at `await task` for the run it cancelled and that
\* run has not terminated, the run's record occupies the conversation's slot and
\* no replacement run exists.
C2_PredecessorKeepsSlot ==
    \A h \in HandlerIds :
        (handlers[h].pc = "await" /\ ~done(handlers[h].pred)) =>
            /\ response_tasks[handlers[h].key] = handlers[h].pred
            /\ \A r \in RunsOf(handlers[h].key) : r <= handlers[h].pred

\* C3: the done-callback of a run that is not the run recorded for its
\* conversation leaves the map unchanged.
C3_StaleCallbackIsNoOp ==
    [][\A r \in TaskIds :
          (AtHead(<<"cb", r>>) /\ tasks[r].kind = "resp"
             /\ response_tasks[tasks[r].key] # r)
          => response_tasks' = response_tasks]_vars

C5_OwnMessageStartsNothing ==
    [][\A h \in HandlerIds :
          (Handled(h) /\ handlers[h].msg[1].author = AgentName)
          => /\ ~should_respond(handlers[h].msg[1])
             /\ handlers'[h].pc = "finished"
             /\ tasks' = tasks /\ response_tasks' = response_tasks]_vars

\* C5 witness: a message of the agent that mentions the agent was handled
C5_Witness ==
    \E h \in HandlerIds :
        /\ handlers[h].pc = "finished" /\ ~handlers[h].elig /\ LastOfKey(h)
        /\ history[handlers[h].key][1].author = AgentName
        /\ AgentName \in MentionSet(history[handlers[h].key][1].content)

C7_FilterOnMentions ==
    (f_verdict # "unasked" /\ f_message.author # AgentName)
    => (f_verdict = "ignore"
          <=> (MentionSet(f_message.content) # {}
                 /\ AgentName \notin MentionSet(f_message.content)))

\* C7 witness: accepted although it mentions others, the agent being among them
C7_Witness ==
    /\ f_verdict = "respond" /\ f_message.author # AgentName
    /\ AgentName \in MentionSet(f_message.content)
    /\ MentionSet(f_message.content) \ {AgentName} # {}

\* C8: a message the eligibility filter of on_message rejects leaves the tasks
\* as they are: the task in flight is not cancelled and none is created.
C8_RejectedChangesNothing ==
    [][(Len(seen') > Len(seen) /\ seen'[Len(seen')] = "rejected")
       => (respond_tasks' = respond_tasks /\ respond_task' = respond_task)]_vars

\* C8 on Trigger.read_message: a message _should_respond rejects changes neither
\* the map of runs nor the idle tasks, and creates, cancels or wakes no task.
C8_TriggerRejectedChangesNothing ==
    [][\A h \in HandlerIds :
          (Handled(h) /\ ~handlers'[h].elig)
          => /\ response_tasks' = response_tasks
             /\ scheduled_tasks' = scheduled_tasks
             /\ tasks' = tasks
             /\ readyq' = Tail(readyq)]_vars

\* C9: no run exists before the platform has signalled readiness.
C9_NoRunBeforeReady == tasks # <<>> => hub_ready

\* C10: an invocation whose first model response carries no tool call ends with
\* the error "No tools were called" after that one request; an invocation whose
\* first response carries tool calls and whose second carries none returns
\* normally after exactly two requests.
C10_FirstRoundsDecide ==
    /\ (Len(responses) >= 1 /\ responses[1] = 0)
         => (call_pc = "raised" /\ call_error = "No tools were called"
               /\ Len(responses) = 1)
    /\ (Len(responses) >= 2 /\ responses[1] > 0 /\ responses[2] = 0)
         => (call_pc = "returned" /\ call_error = "none" /\ Len(responses) = 2)

\* C10 witness: two tool calls in the first response, none in the second
C10_Witness ==
    /\ responses = <<2, 0>> /\ call_pc = "returned"
    /\ Roles(chat_history) = <<"system", "user", "assistant", "tool", "tool">>

\* C11: a round appends to the history only when every tool call of the
\* response has returned, and then it appends the response followed by exactly
\* one tool result per call, with the call's identifier and name, in the order
\* of the calls; the next model request is made only after all have returned.
C11_RoundCompletesAsUnit ==
    [][/\ (call_pc = "gather" /\ chat_history' # chat_history)
            => /\ \A i \in ChildIds : tool_tasks[i].st = "returned"
               /\ Len(chat_history') = Len(chat_history) + 1 + Len(tool_tasks)
               /\ \A i \in ChildIds :
                     LET entry == chat_history'[Len(chat_history) + 1 + i]
                     IN /\ entry.role = "tool"
                        /\ entry.tool_call_id = tool_tasks[i].id
                        /\ entry.name = tool_tasks[i].name
       /\ (Len(responses') > Len(responses))
            => \A i \in ChildIds : tool_tasks[i].st = "returned"]_vars

\* C11 witness: a round of two calls of different tools was appended and the
\* next request made
C11_Witness ==
    /\ Len(responses) = 2 /\ responses[1] = 2 /\ Len(chat_history) = 5
    /\ chat_history[4].tool_call_id = <<1, 1>> /\ chat_history[5].tool_call_id = <<1, 2>>
    /\ chat_history[4].name # chat_history[5].name
    /\ chat_history[4].content = "error text"

\* C12: an invocation ends with an exception only for the two fatal errors, a
\* first response without tool calls and an unknown tool; a handler that raises
\* or whose external call fails never ends it.
C12_ToolErrorsNeverAbort ==
    call_pc = "raised" => call_error \in {"No tools were called", "Unknown tool"}

\* C13: once a response carries a call of a tool that is not in the table of
\* functions, the invocation appends nothing to the history, makes no further
\* model request and never returns normally.
C13_UnknownToolAborts ==
    [][(\E i \in ChildIds : tool_tasks[i].name \notin functions)
       => /\ chat_history' = chat_history
          /\ responses' = responses
          /\ call_pc' \in {"gather", "raised"}]_vars

\* C13 witness: the invocation ended with "Unknown tool" while a known call of
\* the same round had returned its result, which was not appended
C13_Witness ==
    /\ call_pc = "raised" /\ call_error = "Unknown tool"
    /\ \E i \in ChildIds : tool_tasks[i].st = "returned"
    /\ Len(chat_history) = 2 /\ Len(responses) = 1

\* C14: a run that has terminated (returned, raised or was cancelled) and is
\* recorded in the map is eventually not recorded any more, and a message that
\* finds a terminated run or no run recorded starts a run at once.
C14_TerminatedRunFreesKey ==
    \A r \in RunIds :
        (r \in TaskIds /\ tasks[r].kind = "resp" /\ done(r)
           /\ response_tasks[tasks[r].key] = r)
            ~> (r \in TaskIds /\ tasks[r].kind = "resp"
                  /\ response_tasks[tasks[r].key] # r)

\* C14 witness: the records of a cancelled run and of a run that raised are
\* gone, their callbacks having run, and a later message started a run
C14_Witness ==
    \E p, q, r \in TaskIds :
        /\ p < q /\ q < r
        /\ tasks[p].key = tasks[q].key /\ tasks[q].key = tasks[r].key
        /\ tasks[p].st = "cancelled" /\ tasks[q].st = "failed" /\ ~done(r)
        /\ ~Queued(<<"cb", p>>) /\ ~Queued(<<"cb", q>>)
        /\ response_tasks[tasks[r].key] = r

\* C15: read_message resumed after awaiting the run it cancelled does not end
\* with an exception: it records a new run for the conversation.
C15_CancellationSwallowed ==
    [][\A h \in HandlerIds :
          (handlers[h].pc = "await" /\ handlers'[h].pc # "await"
             /\ tasks[handlers[h].pred].st = "cancelled")
          => /\ handlers'[h].pc = "finished"
             /\ Len(tasks') = Len(tasks) + 1
             /\ response_tasks'[handlers[h].key] = Len(tasks')]_vars

\* C15 witness: a handler that awaited a run which ended cancelled has finished
\* and the run it created is recorded
C15_Witness ==
    \E h \in HandlerIds :
        /\ handlers[h].pc = "finished" /\ handlers[h].pred # 0
        /\ tasks[handlers[h].pred].st = "cancelled"
        /\ response_tasks[handlers[h].key] > handlers[h].pred

\* the idle invocations on record
IdleRuns == {r \in TaskIds : tasks[r].kind = "idle"}

C17_KeysIndependent ==
    [][/\ \A h \in HandlerIds :
            (handlers'[h] # handlers[h])
            => /\ \A K2 \in Keys \ {handlers[h].key} :
                     /\ response_tasks'[K2] = response_tasks[K2]
                     /\ \A r \in RunsOf(K2) : tasks'[r] = tasks[r]
               /\ handlers'[h].pred # 0 => handlers'[h].pred \in RunsOf(handlers[h].key)
       /\ \A r \in TaskIds :
            (readyq # <<>> /\ Head(readyq) = <<"cb", r>> /\ readyq' = Tail(readyq)
               /\ tasks[r].kind = "resp")
            => \A K2 \in Keys \ {tasks[r].key} : response_tasks'[K2] = response_tasks[K2]
      ]_vars

\* a run of one channel stays pending and recorded while a later run of the
\* other channel of the server is cancelled by a message and replaced
C17_Witness ==
    \E r, p, q \in TaskIds :
        /\ r < p /\ p < q
        /\ tasks[r].kind = "resp" /\ tasks[p].kind = "resp" /\ tasks[q].kind = "resp"
        /\ tasks[p].key = tasks[q].key /\ tasks[r].key # tasks[p].key
        /\ tasks[r].key[1] = tasks[p].key[1]
        /\ tasks[r].st = "pending" /\ response_tasks[tasks[r].key] = r
        /\ tasks[p].st = "cancelled"
        /\ tasks[q].st = "pending" /\ response_tasks[tasks[q].key] = q

\* C18: with the idle interval disabled (None or zero) no idle timer is armed
\* on readiness and no idle invocation is ever started: there is no idle loop,
\* no step of one on the event loop, no idle task and no idle registry entry.
C18_DisabledNeverIdles ==
    schedule_interval_seconds \in {NoInterval, Seconds(0)}
    => /\ idle_loops = <<>>
       /\ ticks = 0
       /\ scheduled_tasks = {}
       /\ \A r \in TaskIds : tasks[r].kind # "idle"
       /\ \A i \in 1..Len(readyq) : readyq[i][1] # "idle"

\* an interval of zero, every readiness signal handled, and a message answered
C18_Witness ==
    /\ schedule_interval_seconds = Seconds(0)
    /\ hub_ready /\ connects = MaxConnects
    /\ \E r \in TaskIds : tasks[r].kind = "resp" /\ tasks[r].st = "finished"

\* C19: interval parsing follows the documented mapping.  With surrounding
\* whitespace and letter case set aside: each of the tokens 0, off, false,
\* disabled, none, no gives the disabled result; any other string of digits
\* gives that many seconds; digits followed by s, m or h give the number
\* times 1, 60 or 3600 seconds; so "300" gives 300, "45s" 45, "15m" 900 and
\* "2h" 7200, in both packages.
C19_ParsingFollowsMapping ==
    (parsed # Unparsed /\ environ.set) =>
        LET core == lower(strip(environ.text))
            front == SubSeq(core, 1, Len(core) - 1)
            last == core[Len(core)]
            seconds(n) == [kind |-> "float", milli |-> n * 1000]
        IN /\ core \in {<<"0">>, <<"o", "f", "f">>, <<"f", "a", "l", "s", "e">>,
                        <<"d", "i", "s", "a", "b", "l", "e", "d">>,
                        <<"n", "o", "n", "e">>, <<"n", "o">>}
                => parsed.kind = "None"
           /\ (core # <<>> /\ IsDigits(core) /\ core # <<"0">>)
                => parsed = seconds(int(core))
           /\ (Len(core) >= 2 /\ IsDigits(front) /\ last = "s")
                => parsed = seconds(int(front))
           /\ (Len(core) >= 2 /\ IsDigits(front) /\ last = "m")
                => parsed = seconds(int(front) * 60)
           /\ (Len(core) >= 2 /\ IsDigits(front) /\ last = "h")
                => parsed = seconds(int(front) * 3600)
           /\ core = <<"3", "0", "0">> => parsed = seconds(300)
           /\ core = <<"4", "5", "s">> => parsed = seconds(45)
           /\ core = <<"1", "5", "m">> => parsed = seconds(900)
           /\ core = <<"2", "h">> => parsed = seconds(7200)

\* "15M" parsed to 900 seconds and handed to the Trigger
C19_Witness ==
    /\ environ = Text(<<"1", "5", "M">>)
    /\ parsed = Float(900 * Milli)
    /\ schedule_interval_seconds = Seconds(900 * Milli)

\* C20: when the configuration value is absent (unset, empty or only
\* whitespace) parsing gives the default interval of one hour, not the
\* disabled result, and the idle timer is armed on readiness.
C20_AbsentGivesDefault ==
    (parsed # Unparsed /\ (~environ.set \/ strip(environ.text) = <<>>)) =>
        /\ parsed = Float(Hour * Milli)
        /\ hub_ready => idle_loops # <<>>

\* the documented syntax of the interval, whitespace and letter case set
\* aside: a disabling token, a number of seconds (a decimal literal, signed or
\* not), or digits with an optional fraction followed by s, m or h
documented_syntax(core) ==
    \/ core \in {<<"0">>, <<"o", "f", "f">>, <<"f", "a", "l", "s", "e">>,
                 <<"d", "i", "s", "a", "b", "l", "e", "d">>,
                 <<"n", "o", "n", "e">>, <<"n", "o">>}
    \/ is_decimal(core)
    \/ core # <<>> /\ core[1] \in {"+", "-"} /\ is_decimal(Tail(core))
    \/ /\ Len(core) >= 2 /\ core[Len(core)] \in {"s", "m", "h"}
       /\ core[1] \in Digits /\ is_decimal(SubSeq(core, 1, Len(core) - 1))

\* C21: a value with an unrecognized unit or malformed syntax raises a
\* configuration error before the Trigger is constructed: once main() has
\* parsed a value that is set, not blank and not of the documented syntax, the
\* result is the ValueError, the Trigger's interval was never configured and
\* readiness is never signalled to a Trigger.
C21_MalformedIsAnError ==
    (parsed # Unparsed /\ environ.set /\ strip(environ.text) # <<>>
        /\ ~documented_syntax(lower(strip(environ.text))))
    => /\ parsed = ValueError
       /\ schedule_interval_seconds = Seconds(Hour)
       /\ ~hub_ready /\ idle_loops = <<>>

\* the same for every malformed value that float() does not take
C21_MalformedNotFloatIsAnError ==
    (parsed # Unparsed /\ environ.set /\ strip(environ.text) # <<>>
        /\ ~documented_syntax(lower(strip(environ.text)))
        /\ float(lower(strip(environ.text))) = ValueError)
    => /\ parsed = ValueError
       /\ schedule_interval_seconds = Seconds(Hour)
       /\ ~hub_ready /\ idle_loops = <<>>

\* C22: tool argument normalization is uniform.  Whatever the payload, what
\* _parse_input gives the handler is a key-value mapping: the parsed object
\* when the payload is a JSON object, and {content: payload} in every other
\* case, valid JSON that is not an object included.
C22_InputIsAlwaysAnObject ==
    h_pc \notin {"idle", "called"} =>
        /\ h_input.type = "dict"
        /\ h_input = IF json_loads(h_arguments).type = "dict"
                     THEN json_loads(h_arguments)
                     ELSE Dict({<<"content", h_arguments>>})

\* the same for the payloads that are JSON objects or no JSON at all
C22_ObjectsAndNonJson ==
    (h_pc \notin {"idle", "called"}
        /\ json_loads(h_arguments).type \in {"dict", "JSONDecodeError"}) =>
        /\ h_input.type = "dict"
        /\ h_input = IF json_loads(h_arguments).type = "dict"
                     THEN json_loads(h_arguments)
                     ELSE Dict({<<"content", h_arguments>>})

C25_NothingEmptyPassesTheTests ==
    /\ \A i \in 1..Len(h_sent) :
          /\ h_sent[i].content # "" /\ h_sent[i].server # ""
          /\ get(h_input, "channel").text # ""
    /\ (h_name = "send_message" /\ h_pc \notin {"idle", "called", "parsed"}
          /\ h_input.type = "dict" /\ has_key(h_input, "content")
          /\ \E key \in {"content", "server", "channel"} :
                has_key(h_input, key) /\ get(h_input, key).text = "")
       => /\ h_sent = <<>>
          /\ h_pc = "returned"
          /\ h_result \in {"server must be a non-empty string",
                           "channel must be a non-empty string",
                           "content must be a non-empty string"}

\* the full tool-schema list: the discovered tools, then the built-in ones
FullCatalog == discovered.names \o BuiltinSchemas

\* C23: every model request of every invocation of the one Agent is given the
\* same full tool-schema snapshot, never an empty or partly filled one, and
\* the cached list is not modified once it is there.
C23_SameFullSnapshot ==
    \A i \in InvocationIds :
        /\ \A k \in 1..Len(invocations[i].seen) : invocations[i].seen[k] = FullCatalog
        /\ invocations[i].seen # <<>> => tools = ToolList(FullCatalog)

\* the same when the MCP tools need not be listed
C23_WithoutClient ==
    ~discovered.client =>
        \A i \in InvocationIds : \A k \in 1..Len(invocations[i].seen) :
            invocations[i].seen[k] = FullCatalog

NoDuplicates(names) ==
    \A j, k \in 1..Len(names) : names[j] = names[k] => j = k

Collision == \E j \in 1..Len(discovered.names) : discovered.names[j] \in Builtins

\* C24: tool names are unique within a catalog snapshot.  No model request is
\* given a list with a name twice, and when a discovered tool has the name of
\* a built-in one no invocation gets a table of functions or asks the model:
\* the collision is an error.
C24_NamesUniqueOrError ==
    /\ tools.some => NoDuplicates(tools.names)
    /\ \A i \in InvocationIds :
          /\ \A k \in 1..Len(invocations[i].seen) : NoDuplicates(invocations[i].seen[k])
          /\ Collision => invocations[i].functions = {} /\ invocations[i].seen = <<>>

\* C26: a started run re-checks the most recent message of its conversation
\* before it invokes the agent.  When the run goes on from the fetch of that
\* message and the message fails the eligibility filter, the run ends there,
\* normally, with no model request and no message sent.  (io_complete hands
\* the run the conversation's most recent message at the time of the fetch.)
C26_RecheckSkipsRun ==
    [][\A r \in TaskIds :
          (/\ tasks[r].kind = "resp" /\ tasks[r].phase = "fetch"
           /\ tasks'[r].phase # "fetch" /\ ~tasks[r].must_cancel
           /\ tasks[r].fetched # <<>> /\ ~should_respond(tasks[r].fetched[1]))
          => /\ tasks'[r].st = "finished"
             /\ tasks'[r].nreq = 0 /\ tasks'[r].sent = 0
             /\ tasks[r].nreq = 0 /\ tasks[r].sent = 0]_vars

\* a run that ended normally without a model request, its conversation's most
\* recent message being one the filter rejects
C26_Witness ==
    \E r \in TaskIds :
        /\ tasks[r].kind = "resp" /\ tasks[r].st = "finished"
        /\ tasks[r].nreq = 0 /\ tasks[r].sent = 0
        /\ history[tasks[r].key] # <<>> /\ ~should_respond(history[tasks[r].key][1])

\* C27: an eligible message for a key with no active run starts exactly one
\* run, recorded under exactly that key.  The first step of its handler adds
\* one task, of that key, records it under the key, finishes, and leaves the
\* record of every other key and every earlier task as they are.
C27_EligibleStartsOneRun ==
    [][\A h \in HandlerIds :
          (/\ Handled(h) /\ should_respond(handlers[h].msg[1])
           /\ \A r \in RunsOf(handlers[h].key) : done(r))
          => /\ Len(tasks') = Len(tasks) + 1
             /\ tasks'[Len(tasks')] = NewTask("resp", handlers[h].key)
             /\ response_tasks'[handlers[h].key] = Len(tasks')
             /\ \A K2 \in Keys \ {handlers[h].key} : response_tasks'[K2] = response_tasks[K2]
             /\ \A r \in TaskIds : tasks'[r] = tasks[r]
             /\ handlers'[h].pc = "finished"
             /\ Len(SelectSeq(readyq', LAMBDA x : x = <<"run", Len(tasks')>>)) = 1]_vars

\* the first run of channel c1, started by a message while channel c2 of the
\* same server has a run of its own and no other task exists
C27_Witness ==
    /\ Len(tasks) = 2
    /\ tasks[1] = NewTask("resp", <<"s1", "c2">>) /\ response_tasks[<<"s1", "c2">>] = 1
    /\ tasks[2] = NewTask("resp", <<"s1", "c1">>) /\ response_tasks[<<"s1", "c1">>] = 2
    /\ \A h \in HandlerIds : handlers[h].pc = "finished" /\ handlers[h].pred = 0

\* C28: the sole way an invocation ends normally is a model response with no
\* tool call after at least one earlier round with tool calls, and there is no
\* iteration cap.  An invocation that returned has a last response without tool
\* calls and an earlier one with; while every response so far carried tool
\* calls the invocation has not returned, each such response is gathered, and
\* each round whose calls all returned is followed by another model request.
C28_SoleNormalEnd ==
    /\ [](call_pc = "returned"
            => /\ Len(responses) >= 2 /\ responses[Len(responses)] = 0
               /\ \E k \in 1..(Len(responses) - 1) : responses[k] > 0
               /\ ran_tools)
    /\ []((\A k \in 1..Len(responses) : responses[k] > 0) => call_pc # "returned")
    /\ [][/\ (Len(responses') > Len(responses) /\ responses'[Len(responses')] > 0)
               => call_pc' = "gather"
          /\ (call_pc = "gather" /\ call_pc' # "gather"
                /\ \A i \in ChildIds : tool_tasks[i].st = "returned")
               => call_pc' = "request"]_vars

\* two rounds with tool calls, then a response without: the invocation returned
\* after three requests
C28_Witness ==
    /\ call_pc = "returned" /\ Len(responses) = 3
    /\ responses[1] > 0 /\ responses[2] > 0 /\ responses[3] = 0
    /\ Len(chat_history) = 2 + (1 + responses[1]) + (1 + responses[2])

\* C29: any dispatched tool call counts toward the condition that a tool was
\* called, whether it succeeded or gave an error result: once a round has been
\* appended to the history, also one whose results are all error texts, a
\* response without tool calls ends the invocation normally, not with the
\* error "No tools were called".
C29_ErrorResultsCount ==
    /\ [](Len(chat_history) > 2 => ran_tools)
    /\ [][(call_pc = "request" /\ Len(chat_history) > 2
            /\ Len(responses') > Len(responses) /\ responses'[Len(responses')] = 0)
          => call_pc' = "returned" /\ call_error' = "none"]_vars

\* one round of two tool calls that both gave an error text, then a response
\* without tool calls: the invocation returned
C29_Witness ==
    /\ call_pc = "returned" /\ call_error = "none" /\ responses = <<2, 0>>
    /\ Len(chat_history) = 5
    /\ chat_history[4].content = "error text" /\ chat_history[5].content = "error text"

C31_ActiveRunIsRecorded ==
    \A r \in TaskIds :
        (tasks[r].kind = "resp" /\ ~done(r)) => response_tasks[tasks[r].key] = r

C32_ReturnedRunLeftNoTool ==
    call_pc = "returned" => \A i \in ChildIds : tool_tasks[i].st = "returned"

\* the handler h of an eligible message has not taken its first step
EligibleQueued(h) ==
    IF h \in HandlerIds
    THEN IF handlers[h].pc = "queued" THEN should_respond(handlers[h].msg[1]) ELSE FALSE
    ELSE FALSE

\* the handler h found its message eligible and ended without an exception
HandledEligible(h) ==
    IF h \in HandlerIds THEN handlers[h].pc = "finished" /\ handlers[h].elig ELSE FALSE

\* C33: every eligible message handed to read_message gets a run started for
\* its conversation on an event loop that keeps running: its handler ends
\* without an exception, and the step in which it ends creates a run of the
\* conversation and records it.  The handlers waiting on the same cancelled
\* predecessor resume in the order of their messages, so the run recorded when
\* the last of them has resumed is the one of the latest message.
C33_EveryEligibleMessageStartsRun ==
    /\ \A h \in 1..MaxMsgs : EligibleQueued(h) ~> HandledEligible(h)
    /\ [][\A h \in HandlerIds :
              (handlers[h].pc # "finished" /\ handlers'[h].pc = "finished"
                 /\ handlers'[h].elig)
                => /\ Len(tasks') = Len(tasks) + 1
                   /\ tasks'[Len(tasks')] = NewTask("resp", handlers[h].key)
                   /\ response_tasks'[handlers[h].key] = Len(tasks')]_vars
    /\ [][\A h \in HandlerIds :
              (handlers[h].pc = "await" /\ handlers'[h].pc # "await")
                => \A g \in HandlerIds :
                      g < h => ~(handlers[g].pc = "await"
                                   /\ handlers[g].pred = handlers[h].pred)]_vars

\* two handlers waited on the same cancelled run; both have resumed, each
\* started a run, and the run of the later message is the recorded one
C33_Witness ==
    \E g, h \in HandlerIds :
        /\ g < h
        /\ handlers[g].pc = "finished" /\ handlers[h].pc = "finished"
        /\ handlers[g].pred # 0 /\ handlers[g].pred = handlers[h].pred
        /\ tasks[handlers[g].pred].st = "cancelled"
        /\ Len(tasks) = handlers[g].pred + 2
        /\ response_tasks[handlers[h].key] = Len(tasks)

C35_AtMostOneIdleLoop ==
    Len(idle_loops) <= 1

\* C35 for the idle loops that connect starts: one for every readiness signal
\* with an enabled interval, none of them ever ended.
C35_OneIdleLoopPerConnect ==
    Len(idle_loops) = IF idle_enabled(schedule_interval_seconds) THEN connects ELSE 0

\* the idle loops asleep
Asleep == {i \in 1..Len(idle_loops) : idle_loops[i] = "sleeping"}

RECURSIVE Shape(_, _)
Shape(resps, m) ==
    IF m = 0 THEN <<<<"system", <<0, 0>>>>, <<"user", <<0, 0>>>>>>
    ELSE Shape(resps, m - 1) \o <<<<"assistant", <<0, 0>>>>>>
            \o [i \in 1..resps[m] |-> <<"tool", <<m, i>>>>]

\* C37: the exchange history is append-only and keeps its shape.  Once built it
\* is the system entry, the user entry, and for each appended round the
\* assistant response followed by the results of its tool calls in the order
\* of the calls in the response; a step either leaves it as it is or appends to
\* it, and what a round appends is the response and the results in call order,
\* in whatever order the _run_tool tasks ended.
C37_HistoryKeepsShape ==
    /\ [](chat_history # <<>>
            => \E m \in 0..Len(responses) :
                  [k \in 1..Len(chat_history) |->
                      <<chat_history[k].role, chat_history[k].tool_call_id>>]
                    = Shape(responses, m))
    /\ [][chat_history # <<>>
            => /\ Len(chat_history') >= Len(chat_history)
               /\ \A k \in 1..Len(chat_history) : chat_history'[k] = chat_history[k]]_vars
    /\ [][Len(chat_history') > Len(chat_history) /\ chat_history # <<>>
            => /\ Len(chat_history') = Len(chat_history) + 1 + Len(tool_tasks)
               /\ chat_history'[Len(chat_history) + 1] = Entry("assistant")
               /\ \A i \in ChildIds :
                     chat_history'[Len(chat_history) + 1 + i] = tool_tasks[i].result]_vars

\* a round of two tool calls was appended in the order of the calls although
\* the second call ended before the first
C37_Witness ==
    /\ Len(responses) = 1 /\ responses[1] = 2 /\ call_pc = "request"
    /\ tool_tasks[1].order = 2 /\ tool_tasks[2].order = 1
    /\ Len(chat_history) = 5
    /\ chat_history[3].role = "assistant"
    /\ chat_history[4] = tool_tasks[1].result /\ chat_history[5] = tool_tasks[2].result
    /\ chat_history[4].tool_call_id = <<1, 1>> /\ chat_history[5].tool_call_id = <<1, 2>>

\* the names of a table of functions
Names(table) == {entry[1] : entry \in table}

\* C38: in every invocation, each tool name of every schema list given to the
\* model has a handler in the invocation's table of functions.
C38_OfferedToolsHaveHandlers ==
    \A i \in InvocationIds : \A k \in 1..Len(invocations[i].seen) :
        \A j \in 1..Len(invocations[i].seen[k]) :
            invocations[i].seen[k][j] \in Names(invocations[i].functions)

====
